---- MODULE Spec2Model ----
(***************************************************************************)
(* lib/rule-helpers.js: the SSR reachability tracker                       *)
(* (reachableDuringSSRPartial) and the three rules built on it             *)
(* (noReferenceDuringSSR, noPropertyAccessDuringSSR, noNodeEnvInSSR),      *)
(* driven by a traversal that delivers node enter/exit callbacks in        *)
(* document order.                                                         *)
(*                                                                         *)
(* Every call of a rule factory calls reachableDuringSSRPartial and so     *)
(* gets a closure of its own (moduleInfo, insideLWC, ...).  closure[i] is  *)
(* the closure of the i-th callback table the driver calls, reports[i]     *)
(* what that table has reported.  A callback is an operator from the       *)
(* closure (and the node) to the closure after the callback; an action     *)
(* is one event of the driver, delivered to every table.                   *)
(***************************************************************************)
EXTENDS Integers, Sequences, FiniteSets, TLC

\* JavaScript null, for a variable that holds a node (a node is known by
\* its identity, a number), null for a node's missing child, and undefined
None == -1
Null == [type |-> "null"]
Undefined == [type |-> "undefined"]

\* ---- bounds of the model -------------------------------------------------
\* nodes with tracker callbacks entered in one traversal (their identities
\* are 1..MaxNodes; the Program node is 0)
MaxNodes == 6
\* statement-level nesting below Program
MaxDepth == 2
\* expression statements visited in one traversal
MaxExprs == 1
\* nodes entered in each of two interleaved traversals, and their
\* statement-level nesting
MaxInterleavedNodes == 3
MaxInterleavedDepth == 1
\* statement-level nesting in a traversal that delivers the tracker's
\* events only
MaxTrackerDepth == 3

VARIABLES
    closure,    \* per callback table: the variables of reachableDuringSSRPartial
    reports,    \* per callback table: what it handed to the reporting sink
    \* the rule the tables were built by, and the factory's argument
    rule,
    forbiddenGlobalNames,
    \* traversal driver
    run,        \* 1: first traversal, 2: second traversal
    phase,      \* "idle" | "walk" | "done"
    stack,      \* the open nodes below Program, outermost first
    nextId,     \* identity of the next node entered
    closing,    \* the value function of a method has just been left
    expr,       \* the expression statement being visited, or Null
    exprCount,  \* expression statements visited so far
    pending,    \* nodes of the expression whose callbacks are still to call
    mark,       \* per table: Len(reports) when the expression statement was entered
    \* two traversals, each calling a table of its own
    active,     \* 0: one traversal calls every table; i: the traversal of table i is current
    parked      \* the traversal that is not current, or Null

treeVars == <<run, phase, stack, nextId, closing>>
exprVars == <<expr, exprCount, pending, mark>>
ruleVars == <<rule, forbiddenGlobalNames>>
instanceVars == <<active, parked>>
vars == <<closure, reports, ruleVars, treeVars, exprVars, instanceVars>>

\* ---- nodes ---------------------------------------------------------------
Identifier(name) == [type |-> "Identifier", name |-> name]

ClassDeclarationNodes(ref) == {[ref |-> ref, type |-> "ClassDeclaration"]}
FunctionDeclarationNodes(ref) ==
    {[ref |-> ref, type |-> "FunctionDeclaration", id |-> i] :
        i \in {Null, Identifier("f"), Identifier("h")}}
FunctionExpressionNodes(ref) ==
    {[ref |-> ref, type |-> "FunctionExpression", parent |-> p] :
        p \in {[type |-> "VariableDeclarator", id |-> Identifier("f")],
               [type |-> "CallExpression"],
               [type |-> "MethodDefinition"]}}
ArrowFunctionExpressionNodes(ref) ==
    {[ref |-> ref, type |-> "ArrowFunctionExpression", parent |-> p] :
        p \in {[type |-> "VariableDeclarator", id |-> i] :
                  i \in {Identifier("f"), Identifier("h"), [type |-> "ObjectPattern"]}}}
MethodDefinitionNodes(ref) ==
    {[ref |-> ref, type |-> "MethodDefinition", key |-> k] :
        k \in {[type |-> "Literal"], Identifier("connectedCallback"),
               Identifier("handleClick")}}
IfStatementNodes(ref) ==
    {[ref |-> ref, type |-> "IfStatement", ssrEscape |-> b] : b \in BOOLEAN}

\* ---- external collaborators ---------------------------------------------
\* analyze(node): the answers the component analyzer may give
AnalyzeResults ==
    {[lwcClassDeclaration |-> c,
      moduleScopedFunctionsReachableDuringSSR |-> {"f"},
      methodsReachableDuringSSR |-> {"connectedCallback"}] : c \in {None, 1}}

\* isSSREscape(node): the answer is part of the node
isSSREscape(node) == node.ssrEscape

\* isGlobalIdentifier(node, scope): the answer is part of the identifier
isGlobalIdentifier(node) == node.global

\* ---- reachableDuringSSRPartial ------------------------------------------
\* the closure as the factory leaves it
NewClosure ==
    [moduleInfo |-> Undefined,
     insideLWC |-> FALSE,
     reachableFunctionThatWeAreIn |-> None,
     reachableMethodThatWeAreIn |-> None,
     skippedBlockThatWeAreIn |-> None]

\* Program: (node) => { moduleInfo = analyze(node) }; info is analyze's answer
Program(c, info) == [c EXCEPT !.moduleInfo = info]

\* a variant of ClassDeclaration that records the class in moduleInfo
ClassDeclaration_reassigns(c, node) ==
    [c EXCEPT !.moduleInfo = [@ EXCEPT !.lwcClassDeclaration = node.ref],
              !.insideLWC = TRUE]

ClassDeclaration(c, node) ==
    IF node.ref = c.moduleInfo.lwcClassDeclaration
    THEN [c EXCEPT !.insideLWC = TRUE]
    ELSE c



\* a variant of ClassDeclaration:exit that does not compare the node
ClassDeclaration_exit_any(c, node) == [c EXCEPT !.insideLWC = FALSE]

ClassDeclaration_exit(c, node) ==
    IF node.ref = c.moduleInfo.lwcClassDeclaration
    THEN [c EXCEPT !.insideLWC = FALSE]
    ELSE c


\* a variant of FunctionDeclaration that does not test for null
FunctionDeclaration_overwrites(c, node) ==
    IF /\ node.id # Null
       /\ node.id.type = "Identifier"
       /\ node.id.name \in c.moduleInfo.moduleScopedFunctionsReachableDuringSSR
    THEN [c EXCEPT !.reachableFunctionThatWeAreIn = node.ref]
    ELSE c

FunctionDeclaration(c, node) ==
    IF /\ c.reachableFunctionThatWeAreIn = None
       /\ node.id # Null
       /\ node.id.type = "Identifier"
       /\ node.id.name \in c.moduleInfo.moduleScopedFunctionsReachableDuringSSR
    THEN [c EXCEPT !.reachableFunctionThatWeAreIn = node.ref]
    ELSE c


\* a variant of FunctionDeclaration:exit that never clears the function
FunctionDeclaration_exit_keeps(c, node) == c

FunctionDeclaration_exit(c, node) ==
    IF node.ref = c.reachableFunctionThatWeAreIn
    THEN [c EXCEPT !.reachableFunctionThatWeAreIn = None]
    ELSE c

FunctionExpression(c, node) ==
    IF /\ c.reachableFunctionThatWeAreIn = None
       /\ node.parent.type = "VariableDeclarator"
       /\ node.parent.id.type = "Identifier"
       /\ node.parent.id.name \in c.moduleInfo.moduleScopedFunctionsReachableDuringSSR
    THEN [c EXCEPT !.reachableFunctionThatWeAreIn = node.ref]
    ELSE c


\* a variant of FunctionExpression:exit that never clears the function
FunctionExpression_exit_keeps(c, node) == c

FunctionExpression_exit(c, node) ==
    IF node.ref = c.reachableFunctionThatWeAreIn
    THEN [c EXCEPT !.reachableFunctionThatWeAreIn = None]
    ELSE c

ArrowFunctionExpression(c, node) ==
    IF /\ c.reachableFunctionThatWeAreIn = None
       /\ node.parent.type = "VariableDeclarator"
       /\ node.parent.id.type = "Identifier"
       /\ node.parent.id.name \in c.moduleInfo.moduleScopedFunctionsReachableDuringSSR
    THEN [c EXCEPT !.reachableFunctionThatWeAreIn = node.ref]
    ELSE c

ArrowFunctionExpression_exit(c, node) ==
    IF node.ref = c.reachableFunctionThatWeAreIn
    THEN [c EXCEPT !.reachableFunctionThatWeAreIn = None]
    ELSE c


\* a variant of MethodDefinition that does not look at insideLWC
MethodDefinition_anyClass(c, node) ==
    IF /\ node.key.type = "Identifier"
       /\ node.key.name \in c.moduleInfo.methodsReachableDuringSSR
    THEN [c EXCEPT !.reachableMethodThatWeAreIn = node.ref]
    ELSE c

MethodDefinition(c, node) ==
    IF /\ c.insideLWC
       /\ node.key.type = "Identifier"
       /\ node.key.name \in c.moduleInfo.methodsReachableDuringSSR
    THEN [c EXCEPT !.reachableMethodThatWeAreIn = node.ref]
    ELSE c

MethodDefinition_exit(c, node) == [c EXCEPT !.reachableMethodThatWeAreIn = None]

IfStatement(c, node) ==
    IF isSSREscape(node)
    THEN [c EXCEPT !.skippedBlockThatWeAreIn = node.ref]
    ELSE c


\* a variant of IfStatement:exit that never clears the skipped block
IfStatement_exit_keeps(c, node) == c

IfStatement_exit(c, node) ==
    IF c.skippedBlockThatWeAreIn = node.ref
    THEN [c EXCEPT !.skippedBlockThatWeAreIn = None]
    ELSE c

isInsideReachableMethod(c) == c.insideLWC /\ c.reachableMethodThatWeAreIn # None
isInsideReachableFunction(c) == c.reachableFunctionThatWeAreIn # None
isInsideSkippedBlock(c) == c.skippedBlockThatWeAreIn # None

\* ---- inModuleScope -------------------------------------------------------
moduleScopeDisqualifiers ==
    {"FunctionDeclaration", "FunctionExpression", "ArrowFunctionExpression"}

\* context.getAncestors() of a node of the expression statement being
\* visited: the open nodes
inModuleScope ==
    \A i \in 1..Len(stack) : stack[i].type \notin moduleScopeDisqualifiers

\* ---- expressions ---------------------------------------------------------
\* An identifier reference; global is the answer isGlobalIdentifier gives
\* for it in its scope (TRUE: the true global, FALSE: a local shadow).
Ref(name, global) == [type |-> "Identifier", name |-> name, global |-> global]
\* the property name of a member access: no reference
Name(name) == [type |-> "Identifier", name |-> name, global |-> FALSE]
ThisExpression == [type |-> "ThisExpression"]
Member(object, property, optional) ==
    [type |-> "MemberExpression", object |-> object, property |-> property,
     computed |-> FALSE, optional |-> optional]
Computed(object, property) ==
    [type |-> "MemberExpression", object |-> object, property |-> property,
     computed |-> TRUE, optional |-> FALSE]
Call(callee, arguments) ==
    [type |-> "CallExpression", callee |-> callee, arguments |-> arguments]
Chain(expression) == [type |-> "ChainExpression", expression |-> expression]

\* the expression statements the traversal may meet in a file checked by
\* rule r: the shapes the rule's callbacks tell apart
Exprs(r) ==
    CASE r = "noReferenceDuringSSR" ->
        \* globalThis.window.foo(), globalThis.window?.foo(), globalThis?.window.foo
        {Call(Member(Member(Ref("globalThis", g), Name("window"), FALSE),
                     Name("foo"), FALSE), <<>>) : g \in BOOLEAN}
        \cup {Chain(Call(Member(Member(Ref("globalThis", TRUE), Name("window"), FALSE),
                                Name("foo"), TRUE), <<>>)),
              Chain(Member(Member(Ref("globalThis", TRUE), Name("window"), TRUE),
                           Name("foo"), FALSE))}
        \* window.foo, window?.foo, globalThis.foo, globalThis?.foo, bar.foo
        \cup {Member(Ref("window", g), Name("foo"), FALSE) : g \in BOOLEAN}
        \cup {Chain(Member(Ref("window", g), Name("foo"), TRUE)) : g \in BOOLEAN}
        \cup {Member(Ref("globalThis", TRUE), Name("foo"), FALSE),
              Chain(Member(Ref("globalThis", TRUE), Name("foo"), TRUE))}
        \* globalThis.window
        \cup {Member(Ref("globalThis", TRUE), Name("window"), FALSE)}
        \cup {Member(Ref("bar", TRUE), Name("foo"), FALSE)}
        \* bar(window), bar[window]
        \cup {Call(Ref("bar", TRUE), <<Ref("window", g)>>) : g \in BOOLEAN}
        \cup {Computed(Ref("bar", TRUE), Ref("window", TRUE))}
      [] r = "noPropertyAccessDuringSSR" ->
        \* this.querySelector, this.foo, bar.querySelector, bar.foo,
        \* this.foo.querySelector
        {Member(o, Name(n), FALSE) :
            o \in {ThisExpression, Ref("bar", TRUE)}, n \in {"querySelector", "foo"}}
        \cup {Member(Member(ThisExpression, Name("foo"), FALSE),
                     Name("querySelector"), FALSE)}
      [] r = "noNodeEnvInSSR" ->
        \* process.env.NODE_ENV, bar.env.NODE_ENV, bar().env.NODE_ENV,
        \* process.env.foo, process.foo.NODE_ENV, process.NODE_ENV
        {Member(Member(o, Name("env"), FALSE), Name("NODE_ENV"), FALSE) :
            o \in {Ref("process", TRUE), Ref("bar", TRUE), Call(Ref("bar", TRUE), <<>>)}}
        \cup {Member(Member(Ref("process", TRUE), Name("env"), FALSE), Name("foo"), FALSE),
              Member(Member(Ref("process", TRUE), Name("foo"), FALSE), Name("NODE_ENV"), FALSE),
              Member(Ref("process", TRUE), Name("NODE_ENV"), FALSE)}

\* node.parent, as far as the callbacks read it
ParentOf(p) ==
    IF p.type = "MemberExpression"
    THEN [type |-> p.type, optional |-> p.optional, property |-> p.property]
    ELSE [type |-> p.type]

\* The nodes below (and including) e in document order, each with its parent.
RECURSIVE Nodes(_, _)
Nodes(e, p) ==
    CASE e.type = "Identifier" -> <<e @@ [parent |-> ParentOf(p)]>>
      [] e.type = "MemberExpression" ->
            <<e @@ [parent |-> ParentOf(p)]>>
                \o Nodes(e.object, e) \o Nodes(e.property, e)
      [] e.type = "CallExpression" ->
            Nodes(e.callee, e)
                \o (IF e.arguments = <<>> THEN <<>> ELSE Nodes(e.arguments[1], e))
      [] e.type = "ChainExpression" -> Nodes(e.expression, e)
      [] OTHER -> <<>>

\* ---- the rules -----------------------------------------------------------
Rules == {"noReferenceDuringSSR", "noPropertyAccessDuringSSR", "noNodeEnvInSSR"}

\* the node types a rule's callback table has a callback for, besides
\* those of withinLWCVisitors
Callbacks(r) ==
    IF r = "noReferenceDuringSSR"
    THEN {"MemberExpression", "Identifier"} ELSE {"MemberExpression"}

\* arguments of the factories
ForbiddenGlobalNameSets(r) ==
    IF r = "noReferenceDuringSSR"
    THEN {{"window"}, {"window", "globalThis"}} ELSE {{}}
messageIds == <<"A", "B">>
forbiddenPropertyNames == <<"querySelector">>


\* a variant of the early return that forgets the skipped block
notReachable(c) ==
    /\ ~isInsideReachableMethod(c)
    /\ ~isInsideReachableFunction(c)
    /\ ~inModuleScope

\* the condition under which the callbacks of noReferenceDuringSSR and
\* noNodeEnvInSSR return at once
notReachableOrSkipped(c) ==
    \/ (/\ ~isInsideReachableMethod(c)
        /\ ~isInsideReachableFunction(c)
        /\ ~inModuleScope)
    \/ isInsideSkippedBlock(c)


\* a variant of globalThisMember that does not look at parent.optional
globalThisMember_anyParent(node) ==
    /\ node.parent.type = "MemberExpression"
    /\ node.object.type = "Identifier"
    /\ node.object.name = "globalThis"
    /\ node.property.type = "Identifier"
    /\ node.property.name \in forbiddenGlobalNames
    /\ isGlobalIdentifier(node.object)

\* globalThis.X with X forbidden, inside a further, not optional, access
globalThisMember(node) ==
    /\ node.parent.type = "MemberExpression"
    /\ node.object.type = "Identifier"
    /\ node.object.name = "globalThis"
    /\ node.property.type = "Identifier"
    /\ node.property.name \in forbiddenGlobalNames
    /\ node.parent.optional # TRUE
    /\ isGlobalIdentifier(node.object)


\* a variant of globalMember that does not look at node.optional
globalMember_anyOptional(node) ==
    /\ node.parent.type # "MemberExpression"
    /\ node.object.type = "Identifier"
    /\ (\/ node.object.name \in forbiddenGlobalNames
        \/ node.object.name = "globalThis")
    /\ isGlobalIdentifier(node.object)

\* X.p with X forbidden, or globalThis.p, not inside a further access
globalMember(node) ==
    /\ node.parent.type # "MemberExpression"
    /\ node.object.type = "Identifier"
    /\ (\/ node.object.name \in forbiddenGlobalNames
        \/ (node.object.name = "globalThis" /\ node.optional # TRUE))
    /\ isGlobalIdentifier(node.object)

\* a variant of the MemberExpression callback whose kind A report always
\* carries the name of the object
noReferenceDuringSSR_MemberExpression_objectName(c, node, sink) ==
    IF notReachableOrSkipped(c)
    THEN sink
    ELSE IF globalThisMember(node)
    THEN Append(sink,
                [messageId |-> messageIds[2],
                 node |-> node,
                 data |-> [identifier |-> node.property.name,
                           property |-> node.parent.property.name]])
    ELSE IF globalMember(node)
    THEN Append(sink,
                [messageId |-> messageIds[1],
                 node |-> node,
                 data |-> [identifier |-> node.object.name]])
    ELSE sink

noReferenceDuringSSR_MemberExpression(c, node, sink) ==
    IF notReachableOrSkipped(c)
    THEN sink
    ELSE IF globalThisMember(node)
    THEN Append(sink,
                [messageId |-> messageIds[2],
                 node |-> node,
                 data |-> [identifier |-> node.property.name,
                           property |-> node.parent.property.name]])
    ELSE IF globalMember(node)
    THEN Append(sink,
                [messageId |-> messageIds[1],
                 node |-> node,
                 data |-> [identifier |->
                              IF node.object.name = "globalThis"
                              THEN node.property.name
                              ELSE node.object.name]])
    ELSE sink

\* a forbidden name whose parent is no member access
bareIdentifier(node) ==
    /\ node.parent.type # "MemberExpression"
    /\ node.name \in forbiddenGlobalNames
    /\ isGlobalIdentifier(node)

noReferenceDuringSSR_Identifier(c, node, sink) ==
    IF notReachableOrSkipped(c)
    THEN sink
    ELSE IF bareIdentifier(node)
    THEN Append(sink,
                [messageId |-> messageIds[1],
                 node |-> node,
                 data |-> [identifier |-> node.name]])
    ELSE sink

\* this.P with P forbidden
thisProperty(node) ==
    /\ node.object.type = "ThisExpression"
    /\ node.property.type = "Identifier"
    /\ \E i \in 1..Len(forbiddenPropertyNames) :
          forbiddenPropertyNames[i] = node.property.name

\* reporter(node): the sink keeps the node
noPropertyAccessDuringSSR_MemberExpression(c, node, sink) ==
    IF ~isInsideReachableMethod(c) \/ isInsideSkippedBlock(c)
    THEN sink
    ELSE IF thisProperty(node)
    THEN Append(sink, [node |-> node])
    ELSE sink


\* a variant of nodeEnv that accepts any identifier before .env
nodeEnv_anyObject(node) ==
    /\ node.property.type = "Identifier"
    /\ node.property.name = "NODE_ENV"
    /\ node.object.type = "MemberExpression"
    /\ node.object.object.type = "Identifier"
    /\ node.object.property.type = "Identifier"
    /\ node.object.property.name = "env"

\* process.env.NODE_ENV
nodeEnv(node) ==
    /\ node.property.type = "Identifier"
    /\ node.property.name = "NODE_ENV"
    /\ node.object.type = "MemberExpression"
    /\ node.object.object.type = "Identifier"
    /\ node.object.object.name = "process"
    /\ node.object.property.type = "Identifier"
    /\ node.object.property.name = "env"

noNodeEnvInSSR_MemberExpression(c, node, sink) ==
    IF notReachableOrSkipped(c)
    THEN sink
    ELSE IF nodeEnv(node)
    THEN Append(sink,
                [messageId |-> "nodeEnvFound",
                 node |-> node,
                 data |-> [identifier |-> node.property.name]])
    ELSE sink

\* ---- traversal driver ----------------------------------------------------
Top == IF stack = <<>> THEN [ref |-> 0, type |-> "Program"] ELSE stack[Len(stack)]

\* statement-level nesting: a method and its value function belong to
\* the level of their class
Depth == Cardinality({i \in 1..Len(stack) :
            stack[i].type # "MethodDefinition"
            /\ ~(stack[i].type = "FunctionExpression"
                 /\ stack[i].parent.type = "MethodDefinition")})

\* The closure the callbacks of table i read and write: every call of a
\* rule factory calls reachableDuringSSRPartial(), whose variables are
\* local to that call.
ClosureOf_shared(i) == 1

ClosureOf(i) == i

\* the current event is delivered to table i
Delivered(i) == active = 0 \/ active = i

\* a callback called for the current event acts on closure k
Called(k) == \E i \in DOMAIN closure : Delivered(i) /\ ClosureOf(i) = k

\* the nodes one traversal may enter
NodeLimit == IF active = 0 THEN MaxNodes ELSE MaxInterleavedNodes

\* the nesting explored: deeper when only the tracker's callbacks are called
DepthLimit ==
    IF active # 0 THEN MaxInterleavedDepth
    ELSE IF rule \in Rules THEN MaxDepth ELSE MaxTrackerDepth

\* Where the grammar allows a node of this shape: a method is a member of
\* a class, the child of a method is its value function, and the node
\* analyze named as the component class is a class declaration.
Allowed(node) ==
    /\ (node.type = "MethodDefinition") = (Top.type = "ClassDeclaration")
    /\ (node.type = "FunctionExpression" /\ node.parent.type = "MethodDefinition")
          = (Top.type = "MethodDefinition")
    /\ (\A i \in DOMAIN closure :
          (Delivered(i)
           /\ closure[ClosureOf(i)].moduleInfo.lwcClassDeclaration = node.ref)
              => node.type = "ClassDeclaration")
    /\ (node.type # "MethodDefinition" /\ Top.type # "MethodDefinition"
          => Depth < DepthLimit)

\* the driver enters a node: the callback Cb of every table is called
Enter(node, Cb(_, _)) ==
    /\ phase = "walk"
    /\ ~closing
    /\ expr = Null
    /\ nextId <= NodeLimit
    /\ node.ref = nextId
    /\ Allowed(node)
    /\ stack' = Append(stack, node)
    /\ nextId' = nextId + 1
    /\ closure' = [k \in DOMAIN closure |->
                      IF Called(k) THEN Cb(closure[k], node) ELSE closure[k]]
    /\ UNCHANGED <<run, phase, closing, exprVars, ruleVars, instanceVars, reports>>

\* the driver leaves the innermost open node
Exit(Cb(_, _)) ==
    /\ phase = "walk"
    /\ expr = Null
    /\ closing = (Top.type = "MethodDefinition")
    /\ stack' = SubSeq(stack, 1, Len(stack) - 1)
    /\ closing' = (Top.type = "FunctionExpression"
                   /\ Top.parent.type = "MethodDefinition")
    /\ closure' = [k \in DOMAIN closure |->
                      IF Called(k) THEN Cb(closure[k], Top) ELSE closure[k]]
    /\ UNCHANGED <<run, phase, nextId, exprVars, ruleVars, instanceVars, reports>>

VisitProgram ==
    /\ phase = "idle"
    /\ \E info \in AnalyzeResults :
          closure' = [k \in DOMAIN closure |->
                         IF Called(k) THEN Program(closure[k], info) ELSE closure[k]]
    /\ phase' = "walk"
    /\ UNCHANGED <<run, stack, nextId, closing, exprVars, ruleVars, instanceVars, reports>>

\* no callback is registered for Program:exit
LeaveProgram ==
    /\ phase = "walk"
    /\ expr = Null
    /\ stack = <<>>
    /\ phase' = "done"
    /\ UNCHANGED <<closure, run, stack, nextId, closing, exprVars, ruleVars, instanceVars, reports>>

VisitClassDeclaration ==
    \E node \in ClassDeclarationNodes(nextId) : Enter(node, ClassDeclaration)
LeaveClassDeclaration ==
    /\ stack # <<>>
    /\ Top.type = "ClassDeclaration"
    /\ Exit(ClassDeclaration_exit)
VisitFunctionDeclaration ==
    \E node \in FunctionDeclarationNodes(nextId) : Enter(node, FunctionDeclaration)
LeaveFunctionDeclaration ==
    /\ stack # <<>>
    /\ Top.type = "FunctionDeclaration"
    /\ Exit(FunctionDeclaration_exit)
VisitFunctionExpression ==
    \E node \in FunctionExpressionNodes(nextId) : Enter(node, FunctionExpression)
LeaveFunctionExpression ==
    /\ stack # <<>>
    /\ Top.type = "FunctionExpression"
    /\ Exit(FunctionExpression_exit)
VisitArrowFunctionExpression ==
    \E node \in ArrowFunctionExpressionNodes(nextId) :
        Enter(node, ArrowFunctionExpression)
LeaveArrowFunctionExpression ==
    /\ stack # <<>>
    /\ Top.type = "ArrowFunctionExpression"
    /\ Exit(ArrowFunctionExpression_exit)
VisitMethodDefinition ==
    \E node \in MethodDefinitionNodes(nextId) : Enter(node, MethodDefinition)
LeaveMethodDefinition ==
    /\ stack # <<>>
    /\ Top.type = "MethodDefinition"
    /\ Exit(MethodDefinition_exit)
VisitIfStatement ==
    \E node \in IfStatementNodes(nextId) : Enter(node, IfStatement)
LeaveIfStatement ==
    /\ stack # <<>>
    /\ Top.type = "IfStatement"
    /\ Exit(IfStatement_exit)

\* The driver reaches an expression statement: the nodes of the
\* expression that the rule has a callback for are visited in document
\* order.  No tracker callback is registered for these node types.
VisitExpressionStatement ==
    /\ phase = "walk"
    /\ ~closing
    /\ expr = Null
    /\ Top.type # "MethodDefinition"
    /\ exprCount < MaxExprs
    /\ \E e \in Exprs(rule) :
          /\ expr' = e
          /\ pending' = SelectSeq(Nodes(e, [type |-> "ExpressionStatement"]),
                                  LAMBDA n : n.type \in Callbacks(rule))
    /\ exprCount' = exprCount + 1
    /\ mark' = [i \in DOMAIN reports |->
                   IF Delivered(i) THEN Len(reports[i]) ELSE mark[i]]
    /\ UNCHANGED <<closure, treeVars, ruleVars, instanceVars, reports>>

LeaveExpressionStatement ==
    /\ expr # Null
    /\ pending = <<>>
    /\ expr' = Null
    /\ UNCHANGED <<closure, treeVars, exprCount, pending, mark, ruleVars, instanceVars, reports>>

\* the callback Cb of every table is called for the next node of the
\* expression
Visit(Cb(_, _, _)) ==
    /\ pending' = Tail(pending)
    /\ reports' = [i \in DOMAIN reports |->
                      IF Delivered(i)
                      THEN Cb(closure[ClosureOf(i)], Head(pending), reports[i])
                      ELSE reports[i]]
    /\ UNCHANGED <<closure, treeVars, expr, exprCount, mark, ruleVars, instanceVars>>

VisitMemberExpression_noReferenceDuringSSR ==
    /\ rule = "noReferenceDuringSSR"
    /\ pending # <<>>
    /\ Head(pending).type = "MemberExpression"
    /\ Visit(noReferenceDuringSSR_MemberExpression)
VisitIdentifier_noReferenceDuringSSR ==
    /\ rule = "noReferenceDuringSSR"
    /\ pending # <<>>
    /\ Head(pending).type = "Identifier"
    /\ Visit(noReferenceDuringSSR_Identifier)
VisitMemberExpression_noPropertyAccessDuringSSR ==
    /\ rule = "noPropertyAccessDuringSSR"
    /\ pending # <<>>
    /\ Head(pending).type = "MemberExpression"
    /\ Visit(noPropertyAccessDuringSSR_MemberExpression)
VisitMemberExpression_noNodeEnvInSSR ==
    /\ rule = "noNodeEnvInSSR"
    /\ pending # <<>>
    /\ Head(pending).type = "MemberExpression"
    /\ Visit(noNodeEnvInSSR_MemberExpression)

\* ---- specification -------------------------------------------------------
\* one rule has been built by its factory; nothing has been traversed
Init ==
    /\ closure = <<NewClosure>>
    /\ reports = <<<<>>>>
    /\ \E r \in Rules :
          /\ rule = r
          /\ forbiddenGlobalNames \in ForbiddenGlobalNameSets(r)
    /\ run = 1
    /\ phase = "idle"
    /\ stack = <<>>
    /\ nextId = 1
    /\ closing = FALSE
    /\ expr = Null
    /\ exprCount = 0
    /\ pending = <<>>
    /\ mark = <<0>>
    /\ active = 0
    /\ parked = Null

Next ==
    \/ VisitProgram
    \/ LeaveProgram
    \/ VisitClassDeclaration
    \/ LeaveClassDeclaration
    \/ VisitFunctionDeclaration
    \/ LeaveFunctionDeclaration
    \/ VisitFunctionExpression
    \/ LeaveFunctionExpression
    \/ VisitArrowFunctionExpression
    \/ LeaveArrowFunctionExpression
    \/ VisitMethodDefinition
    \/ LeaveMethodDefinition
    \/ VisitIfStatement
    \/ LeaveIfStatement
    \/ VisitExpressionStatement
    \/ LeaveExpressionStatement
    \/ VisitMemberExpression_noReferenceDuringSSR
    \/ VisitIdentifier_noReferenceDuringSSR
    \/ VisitMemberExpression_noPropertyAccessDuringSSR
    \/ VisitMemberExpression_noNodeEnvInSSR

Spec == Init /\ [][Next]_vars

\* ---- a second traversal --------------------------------------------------
\* After a complete traversal the driver walks a tree again (the same
\* tree: the same nodes, the same answers of the collaborators; or any
\* other), calling two tables for every event: table 1, the table the
\* first traversal used, with its closure as that traversal left it, and
\* table 2, built anew by the same factory with the same arguments.
\* Table 2 on the tree of the first traversal does what table 1 did in
\* the first traversal: the same callbacks from the same closure.
SecondRun ==
    /\ run = 1
    /\ phase = "done"
    /\ run' = 2
    /\ closure' = <<closure[1], NewClosure>>
    /\ reports' = <<<<>>, <<>>>>
    /\ mark' = <<0, 0>>
    /\ phase' = "idle"
    /\ nextId' = 1
    /\ exprCount' = 0
    /\ UNCHANGED <<stack, closing, expr, pending, ruleVars, instanceVars>>

NextTwice == Next \/ SecondRun
SpecTwice == Init /\ [][NextTwice]_vars

\* ---- the tracker alone ----------------------------------------------------
\* The table is withinLWCVisitors as reachableDuringSSRPartial returns it:
\* the callbacks every rule spreads into its own table, and no callback of
\* a rule.
InitTracker ==
    /\ closure = <<NewClosure>>
    /\ reports = <<<<>>>>
    /\ rule = "reachableDuringSSRPartial"
    /\ forbiddenGlobalNames = {}
    /\ run = 1
    /\ phase = "idle"
    /\ stack = <<>>
    /\ nextId = 1
    /\ closing = FALSE
    /\ expr = Null
    /\ exprCount = 0
    /\ pending = <<>>
    /\ mark = <<0>>
    /\ active = 0
    /\ parked = Null

NextTracker ==
    \/ VisitProgram
    \/ LeaveProgram
    \/ VisitClassDeclaration
    \/ LeaveClassDeclaration
    \/ VisitFunctionDeclaration
    \/ LeaveFunctionDeclaration
    \/ VisitFunctionExpression
    \/ LeaveFunctionExpression
    \/ VisitArrowFunctionExpression
    \/ LeaveArrowFunctionExpression
    \/ VisitMethodDefinition
    \/ LeaveMethodDefinition
    \/ VisitIfStatement
    \/ LeaveIfStatement

SpecTracker == InitTracker /\ [][NextTracker]_vars

\* ---- two interleaved traversals -------------------------------------------
\* Two tables, each built by its own call of a rule factory, each called
\* by a traversal of its own (of any tree); the events of the two
\* traversals come in any order.  Both tables are built by
\* noNodeEnvInSSR, whose callback asks all three questions of the tracker;
\* exprCount counts the expression statements of both traversals.
Traversal ==
    [rule |-> rule, forbiddenGlobalNames |-> forbiddenGlobalNames,
     phase |-> phase, stack |-> stack, nextId |-> nextId, closing |-> closing,
     expr |-> expr, pending |-> pending]

\* the next event is of the other traversal
Switch ==
    /\ active # 0
    /\ active' = 3 - active
    /\ parked' = Traversal
    /\ rule' = parked.rule
    /\ forbiddenGlobalNames' = parked.forbiddenGlobalNames
    /\ phase' = parked.phase
    /\ stack' = parked.stack
    /\ nextId' = parked.nextId
    /\ closing' = parked.closing
    /\ expr' = parked.expr
    /\ pending' = parked.pending
    /\ UNCHANGED <<closure, reports, mark, run, exprCount>>

InitInterleaved ==
    /\ closure = <<NewClosure, NewClosure>>
    /\ reports = <<<<>>, <<>>>>
    /\ rule = "noNodeEnvInSSR"
    /\ forbiddenGlobalNames = {}
    /\ run = 1
    /\ phase = "idle"
    /\ stack = <<>>
    /\ nextId = 1
    /\ closing = FALSE
    /\ expr = Null
    /\ exprCount = 0
    /\ pending = <<>>
    /\ mark = <<0, 0>>
    /\ active = 1
    /\ parked = [rule |-> "noNodeEnvInSSR", forbiddenGlobalNames |-> {},
                 phase |-> "idle", stack |-> <<>>, nextId |-> 1, closing |-> FALSE,
                 expr |-> Null, pending |-> <<>>]

NextInterleaved ==
    \/ NextTracker
    \/ VisitExpressionStatement
    \/ LeaveExpressionStatement
    \/ VisitMemberExpression_noNodeEnvInSSR
    \/ Switch
SpecInterleaved == InitInterleaved /\ [][NextInterleaved]_vars

\* ---- vocabulary of the properties ---------------------------------------
FunctionTypes ==
    {"FunctionDeclaration", "FunctionExpression", "ArrowFunctionExpression"}

\* the name a function node is bound to, "" when it has none
BoundName(node) ==
    IF node.type = "FunctionDeclaration"
    THEN (IF node.id # Null THEN node.id.name ELSE "")
    ELSE IF node.parent.type = "VariableDeclarator" /\ node.parent.id.type = "Identifier"
         THEN node.parent.id.name
         ELSE ""

\* the node is open: entered and not yet left
Open(ref, types) ==
    \E k \in 1..Len(stack) : stack[k].ref = ref /\ stack[k].type \in types

\* the position is lexically enclosed in a recognized SSR escape guard
InGuard ==
    \E k \in 1..Len(stack) : stack[k].type = "IfStatement" /\ stack[k].ssrEscape

\* the position is lexically inside a method of the component class whose
\* name is in methodsReachableDuringSSR
InReachableMethodOfComponent(c) ==
    \E k \in 2..Len(stack) :
        /\ stack[k].type = "MethodDefinition"
        /\ stack[k].key.type = "Identifier"
        /\ stack[k].key.name \in c.moduleInfo.methodsReachableDuringSSR
        /\ stack[k - 1].ref = c.moduleInfo.lwcClassDeclaration

\* the position is lexically inside a function bound to a name of
\* moduleScopedFunctionsReachableDuringSSR
InReachableFunction(c) ==
    \E k \in 1..Len(stack) :
        /\ stack[k].type \in FunctionTypes
        /\ BoundName(stack[k]) \in c.moduleInfo.moduleScopedFunctionsReachableDuringSSR

\* every callback of the expression statement has been called
Visited == expr # Null /\ pending = <<>>

\* what table i reported for the expression statement being visited
Found(i) == SubSeq(reports[i], mark[i] + 1, Len(reports[i]))

GlobalThisWindowFoo(global) ==
    Call(Member(Member(Ref("globalThis", global), Name("window"), FALSE),
                Name("foo"), FALSE), <<>>)
GlobalThisWindowOptionalFoo ==
    Chain(Call(Member(Member(Ref("globalThis", TRUE), Name("window"), FALSE),
                      Name("foo"), TRUE), <<>>))
ProcessEnvNodeEnv ==
    Member(Member(Ref("process", TRUE), Name("env"), FALSE), Name("NODE_ENV"), FALSE)

\* ---- C1 ------------------------------------------------------------------
\* C1: in every reachable state each of reachableFunctionThatWeAreIn,
\* reachableMethodThatWeAreIn and skippedBlockThatWeAreIn is null or is a
\* node (a function, a method, an if-statement) that has been entered and
\* not yet left.
C1_Containment ==
    \A i \in DOMAIN closure :
        /\ closure[i].reachableFunctionThatWeAreIn # None
              => Open(closure[i].reachableFunctionThatWeAreIn, FunctionTypes)
        /\ closure[i].reachableMethodThatWeAreIn # None
              => Open(closure[i].reachableMethodThatWeAreIn, {"MethodDefinition"})
        /\ closure[i].skippedBlockThatWeAreIn # None
              => Open(closure[i].skippedBlockThatWeAreIn, {"IfStatement"})

\* inside a reachable method and a guard, after some node has been left
C1_Witness ==
    /\ closure[1].reachableMethodThatWeAreIn # None
    /\ closure[1].skippedBlockThatWeAreIn # None
    /\ nextId > Len(stack) + 1

\* ---- C2 ------------------------------------------------------------------
\* C2: while the expression statement being visited is lexically enclosed
\* in a recognized SSR escape guard, no rule reports anything for it.
C2_GuardedReferenceUnreported ==
    (expr # Null /\ InGuard) => \A i \in DOMAIN reports : Found(i) = <<>>

\* ---- C3 ------------------------------------------------------------------
\* C3: noPropertyAccessDuringSSR calls the reporter exactly once for
\* this.querySelector outside any guard when the access is lexically
\* inside a method of the component class whose name is in
\* methodsReachableDuringSSR, and never otherwise.
C3_ThisPropertyOnceInReachableMethod ==
    (/\ rule = "noPropertyAccessDuringSSR"
     /\ Visited
     /\ expr = Member(ThisExpression, Name("querySelector"), FALSE)
     /\ ~InGuard)
        => \A i \in DOMAIN reports :
              Len(Found(i)) = IF InReachableMethodOfComponent(closure[i]) THEN 1 ELSE 0

\* ---- C4 ------------------------------------------------------------------
\* C4 as stated: globalThis.window.foo() visited inside a reachable method
\* (globalThis the true global) is reported exactly once, with kind B,
\* identifier window and property foo; globalThis.window?.foo() there is
\* not reported.
C4_GlobalThisMemberInReachableMethod ==
    (/\ rule = "noReferenceDuringSSR"
     /\ Visited
     /\ isInsideReachableMethod(closure[1]))
        => /\ expr = GlobalThisWindowFoo(TRUE)
                => /\ Len(Found(1)) = 1
                   /\ Found(1)[1].messageId = "B"
                   /\ Found(1)[1].data = [identifier |-> "window", property |-> "foo"]
           /\ expr = GlobalThisWindowOptionalFoo => Found(1) = <<>>

\* C4 amended: the same, for a position that is inside a reachable method
\* and outside any skipped block.
C4_GlobalThisMemberOutsideSkippedBlock ==
    (/\ rule = "noReferenceDuringSSR"
     /\ Visited
     /\ isInsideReachableMethod(closure[1]))
        => /\ (expr = GlobalThisWindowFoo(TRUE) /\ ~isInsideSkippedBlock(closure[1]))
                => /\ Len(Found(1)) = 1
                   /\ Found(1)[1].messageId = "B"
                   /\ Found(1)[1].data = [identifier |-> "window", property |-> "foo"]
           /\ expr = GlobalThisWindowOptionalFoo => Found(1) = <<>>

\* globalThis.window.foo() has been reported inside a reachable method
C4_Witness ==
    /\ rule = "noReferenceDuringSSR"
    /\ Visited
    /\ expr = GlobalThisWindowFoo(TRUE)
    /\ isInsideReachableMethod(closure[1])
    /\ Len(Found(1)) = 1

C6_BareIdentifierReportedOnce ==
    \A g \in BOOLEAN :
        (/\ rule = "noReferenceDuringSSR"
         /\ Visited
         /\ ~notReachableOrSkipped(closure[1])
         /\ \/ expr = Call(Ref("bar", TRUE), <<Ref("window", g)>>)
            \/ (g /\ expr = Computed(Ref("bar", TRUE), Ref("window", TRUE))))
            => /\ Len(Found(1)) = IF g THEN 1 ELSE 0
               /\ \A k \in 1..Len(Found(1)) :
                     /\ Found(1)[k].messageId = "A"
                     /\ Found(1)[k].data = [identifier |-> "window"]

\* ---- C7 ------------------------------------------------------------------
\* C7: noNodeEnvInSSR reports process.env.NODE_ENV visited inside a
\* reachable function and outside any skipped block exactly once
\* (nodeEnvFound, identifier NODE_ENV, at the outer access), and never
\* reports bar.env.NODE_ENV or bar().env.NODE_ENV.
C7_NodeEnvOnce ==
    (rule = "noNodeEnvInSSR" /\ Visited)
        => \A i \in DOMAIN reports :
              /\ (/\ expr = ProcessEnvNodeEnv
                  /\ (isInsideReachableFunction(closure[i]) \/ InReachableFunction(closure[i]))
                  /\ ~isInsideSkippedBlock(closure[i]))
                    => /\ Len(Found(i)) = 1
                       /\ Found(i)[1].messageId = "nodeEnvFound"
                       /\ Found(i)[1].data = [identifier |-> "NODE_ENV"]
                       /\ Found(i)[1].node.object = ProcessEnvNodeEnv.object
              /\ expr \in {Member(Member(o, Name("env"), FALSE), Name("NODE_ENV"), FALSE) :
                              o \in {Ref("bar", TRUE), Call(Ref("bar", TRUE), <<>>)}}
                    => Found(i) = <<>>

\* process.env.NODE_ENV has been reported inside a reachable function
\* that is nested in another function
C7_Witness ==
    /\ rule = "noNodeEnvInSSR"
    /\ Visited
    /\ expr = ProcessEnvNodeEnv
    /\ InReachableFunction(closure[1])
    /\ Len(stack) = 2
    /\ Len(Found(1)) = 1

\* ---- C8 ------------------------------------------------------------------
\* C8: a step in which noReferenceDuringSSR or noNodeEnvInSSR reports is
\* taken outside any skipped block, and inside a reachable method, inside
\* a reachable function, or at a node with no function declaration,
\* function expression or lambda among its ancestors.
C8_ReportsOnlyWhenGated ==
    [][(/\ rule \in {"noReferenceDuringSSR", "noNodeEnvInSSR"}
        /\ Len(reports'[1]) > Len(reports[1]))
          => /\ ~isInsideSkippedBlock(closure[1])
             /\ \/ isInsideReachableMethod(closure[1])
                \/ isInsideReachableFunction(closure[1])
                \/ \A k \in 1..Len(stack) : stack[k].type \notin FunctionTypes]_vars

\* noNodeEnvInSSR has reported inside a reachable function, and
\* noReferenceDuringSSR at module top level
C8_Witness ==
    /\ Found(1) # <<>>
    /\ ~isInsideSkippedBlock(closure[1])
    /\ \/ (rule = "noNodeEnvInSSR" /\ isInsideReachableFunction(closure[1]))
       \/ (rule = "noReferenceDuringSSR" /\ stack = <<>>)

\* ---- C9 ------------------------------------------------------------------
\* C9: reachableFunctionThatWeAreIn is null or an open function bound to
\* a name of moduleScopedFunctionsReachableDuringSSR that is declared at
\* module level: no function, lambda or method encloses it.
C9_ReachableFunctionIsModuleLevel ==
    \A i \in DOMAIN closure :
        closure[i].reachableFunctionThatWeAreIn # None
            => \E k \in 1..Len(stack) :
                  /\ stack[k].ref = closure[i].reachableFunctionThatWeAreIn
                  /\ stack[k].type \in FunctionTypes
                  /\ BoundName(stack[k])
                        \in closure[i].moduleInfo.moduleScopedFunctionsReachableDuringSSR
                  /\ \A j \in 1..(k - 1) :
                        stack[j].type \notin FunctionTypes \cup {"MethodDefinition"}

\* ---- C10 -----------------------------------------------------------------
\* C10: in a second traversal by the table of the first traversal (closure
\* as the first traversal left it), the table has at every moment reported
\* exactly what a table built anew has reported for the same events: the
\* same nodes, message kinds and data in the same order.  The table built
\* anew repeats, on the tree of the first traversal, the reports of the
\* first traversal.
C10_SecondRunSameReports ==
    run = 2 => reports[1] = reports[2]

\* a second traversal is complete and has reported
C10_Witness ==
    /\ run = 2
    /\ phase = "done"
    /\ reports[2] # <<>>

\* ---- C11 -----------------------------------------------------------------
\* the innermost open node is this class, and the step leaves it
Leaving(ref) ==
    /\ stack # <<>>
    /\ Top.ref = ref
    /\ stack' = SubSeq(stack, 1, Len(stack) - 1)

\* the step enters a node of one of these types
Entering(types) ==
    /\ Len(stack') = Len(stack) + 1
    /\ stack'[Len(stack')].type \in types

\* C11: insideLWC changes only in the step that enters or leaves the class
\* declaration that is moduleInfo.lwcClassDeclaration; entering or leaving
\* any other class declaration leaves every variable of the closure
\* unchanged; insideLWC is true exactly while that class is open.
C11_InsideLWCOnlyAtComponentClass ==
    [][LET c == closure[1]
           lwc == c.moduleInfo.lwcClassDeclaration
       IN  phase = "walk" =>
           /\ closure'[1].insideLWC # c.insideLWC
                => \/ Leaving(lwc)
                   \/ (Entering({"ClassDeclaration"}) /\ stack'[Len(stack')].ref = lwc)
           /\ (Entering({"ClassDeclaration"}) /\ stack'[Len(stack')].ref # lwc)
                => closure'[1] = c
           /\ (stack # <<>> /\ Top.type = "ClassDeclaration" /\ Top.ref # lwc
               /\ Len(stack') < Len(stack))
                => closure'[1] = c
           /\ closure'[1].insideLWC
                <=> \E k \in 1..Len(stack') : stack'[k].ref = lwc]_vars

\* another class is open inside a reachable method of the component class
C11_Witness ==
    /\ closure[1].insideLWC
    /\ closure[1].reachableMethodThatWeAreIn # None
    /\ stack # <<>>
    /\ Top.type = "ClassDeclaration"
    /\ Top.ref # closure[1].moduleInfo.lwcClassDeclaration

\* ---- C12 -----------------------------------------------------------------
\* C12: while reachableFunctionThatWeAreIn is F, a step leaves it F unless
\* it is the step that leaves F, which makes it null: entering any other
\* function, whatever its name, and leaving any other node do not change
\* it.
C12_ReachableFunctionKeptUntilItsExit ==
    [][LET F == closure[1].reachableFunctionThatWeAreIn
       IN  (phase = "walk" /\ F # None) =>
           IF Leaving(F)
           THEN closure'[1].reachableFunctionThatWeAreIn = None
           ELSE closure'[1].reachableFunctionThatWeAreIn = F]_vars

\* inside F, another function bound to a reachable name has been entered
C12_Witness ==
    /\ closure[1].reachableFunctionThatWeAreIn # None
    /\ stack # <<>>
    /\ Top.type \in FunctionTypes
    /\ Top.ref # closure[1].reachableFunctionThatWeAreIn
    /\ BoundName(Top) \in closure[1].moduleInfo.moduleScopedFunctionsReachableDuringSSR

\* ---- C13 -----------------------------------------------------------------
\* the member access of the expression statement, when the statement is a
\* member access that is in no other member access
TopMember == IF expr.type = "ChainExpression" THEN expr.expression ELSE expr

\* the expression statement X.p or X?.p, X an identifier resolving to the
\* true global, has been visited at a gated position
GlobalMemberVisited ==
    /\ rule = "noReferenceDuringSSR"
    /\ Visited
    /\ ~notReachableOrSkipped(closure[1])
    /\ TopMember.type = "MemberExpression"
    /\ ~TopMember.computed
    /\ TopMember.object.type = "Identifier"
    /\ TopMember.object.global

\* exactly one report for the expression statement, of kind A
OneKindA(identifier) ==
    /\ Len(Found(1)) = 1
    /\ Found(1)[1].messageId = "A"
    /\ Found(1)[1].data = [identifier |-> identifier]

FunctionInReachableMethod ==
    \E k \in 1..Len(stack) : \E j \in (k + 2)..Len(stack) :
        /\ stack[k].type = "MethodDefinition"
        /\ stack[k].key.type = "Identifier"
        /\ stack[k].key.name \in closure[1].moduleInfo.methodsReachableDuringSSR
        /\ stack[j].type \in FunctionTypes

\* C14: where no function is nested inside a reachable method, at most
\* one of reachableFunctionThatWeAreIn and reachableMethodThatWeAreIn is
\* not null.
C14_AtMostOneOfFunctionAndMethod ==
    ~FunctionInReachableMethod
        => \/ closure[1].reachableFunctionThatWeAreIn = None
           \/ closure[1].reachableMethodThatWeAreIn = None

\* ---- C15 -----------------------------------------------------------------
\* C15: the first event of a traversal is Program, whose callback assigns
\* analyze's answer to moduleInfo before any node has been entered; every
\* later callback of the traversal finds that answer in moduleInfo and
\* leaves it there.
C15_ModuleInfoAssignedOnceAtProgram ==
    [][/\ phase = "idle"
          => /\ phase' = "walk"
             /\ stack = <<>>
             /\ nextId = 1
             /\ closure'[1].moduleInfo \in AnalyzeResults
       /\ phase # "idle"
          => /\ phase' # "idle"
             /\ closure[1].moduleInfo \in AnalyzeResults
             /\ closure'[1].moduleInfo = closure[1].moduleInfo]_vars

\* the callbacks of a class, a method, a function and another class have
\* read moduleInfo, and a rule has reported
C15_Witness ==
    /\ Len(stack) = 4
    /\ Top.type = "ClassDeclaration"
    /\ closure[1].reachableMethodThatWeAreIn # None
    /\ closure[1].moduleInfo \in AnalyzeResults
    /\ exprCount = 1

\* ---- C17 -----------------------------------------------------------------
\* C17: reachableMethodThatWeAreIn is not null only while insideLWC is
\* true, so isInsideReachableMethod() is true exactly when
\* reachableMethodThatWeAreIn is not null.
C17_ReachableMethodOnlyInsideLWC ==
    /\ closure[1].reachableMethodThatWeAreIn # None => closure[1].insideLWC
    /\ isInsideReachableMethod(closure[1])
          <=> closure[1].reachableMethodThatWeAreIn # None

\* a guard is open inside a function inside a reachable method
C17_Witness ==
    /\ closure[1].reachableMethodThatWeAreIn # None
    /\ isInsideReachableMethod(closure[1])
    /\ Len(stack) = 5
    /\ Top.type = "IfStatement"

\* ---- C18 -----------------------------------------------------------------
\* C18: when the traversal is complete insideLWC is false and
\* reachableFunctionThatWeAreIn, reachableMethodThatWeAreIn and
\* skippedBlockThatWeAreIn are null.
C18_InitialContextAfterTraversal ==
    phase = "done"
        => /\ ~closure[1].insideLWC
           /\ closure[1].reachableFunctionThatWeAreIn = None
           /\ closure[1].reachableMethodThatWeAreIn = None
           /\ closure[1].skippedBlockThatWeAreIn = None

\* a traversal of as many nodes as the bound allows is complete
C18_Witness ==
    /\ phase = "done"
    /\ nextId = MaxNodes + 1
    /\ closure[1].moduleInfo.lwcClassDeclaration = 1

\* ---- C16 -----------------------------------------------------------------
\* the slots of closure i are null or nodes open in this stack
Contained(i, open) ==
    /\ closure[i].reachableFunctionThatWeAreIn # None
          => \E k \in 1..Len(open) :
                /\ open[k].ref = closure[i].reachableFunctionThatWeAreIn
                /\ open[k].type \in FunctionTypes
    /\ closure[i].reachableMethodThatWeAreIn # None
          => \E k \in 1..Len(open) :
                /\ open[k].ref = closure[i].reachableMethodThatWeAreIn
                /\ open[k].type = "MethodDefinition"
    /\ closure[i].skippedBlockThatWeAreIn # None
          => \E k \in 1..Len(open) :
                /\ open[k].ref = closure[i].skippedBlockThatWeAreIn
                /\ open[k].type = "IfStatement"

\* C16: of two tables whose traversals are interleaved, an event of one
\* traversal changes neither the closure nor the reports of the other
\* table, and passing from one traversal to the other changes nothing of
\* either; the closure of each table refers to open nodes of its own
\* traversal only.
C16_InstancesIndependent ==
    [][/\ \A i \in DOMAIN closure :
             (active' # active \/ i # active)
                => /\ closure'[i] = closure[i]
                   /\ reports'[i] = reports[i]
       /\ Contained(active, stack)
       /\ Contained(3 - active, parked.stack)]_vars

\* table 2 has reported at module top level while the traversal of table 1
\* is inside a guard
C16_Witness ==
    /\ active = 2
    /\ parked.stack # <<>>
    /\ closure[1].skippedBlockThatWeAreIn # None
    /\ closure[2].skippedBlockThatWeAreIn = None
    /\ stack = <<>>
    /\ Found(2) # <<>>
====
